---- MODULE Spec2Model ----
(***************************************************************************)
(* A model of the progressive renderer of src/Renderer.cpp and of the part *)
(* of src/game.cpp that drives it.                                         *)
(*                                                                         *)
(* Radiance is modelled by one colour channel with natural-number values   *)
(* (the three channels of a vec3 are accumulated, scaled, gamma-corrected  *)
(* and quantised independently and identically).  The frame geometry       *)
(* (SCRWIDTH, SCRHEIGHT, TILESIZE: macros of a header that is not part of  *)
(* the sources) is chosen at construction from a bounded set.              *)
(***************************************************************************)
EXTENDS Integers, Sequences, FiniteSets, TLC

\* ------------------------------------------------------------------ bounds
\* largest frame width and height tried by the tick specification
MaxDim == 4
\* largest TILESIZE tried by the tick specification
MaxTile == 3
\* the configured maximum iteration count (Renderer.cpp:48)
SAMPLES == 3
\* the bounce budget renderFrame passes to shootRay (Renderer.cpp:62)
MAXRAYDEPTH == 2

\* radiance samples a primary ray can return (dark, lit)
Radiance == {0, 1}
\* the radiance of a uniformly lit scene
UnitRadiance == {1}
\* hit distances the focus ray can report
Distances == {1, 2}

VARIABLES
    cfg,            \* [w, h, tile]: SCRWIDTH, SCRHEIGHT, TILESIZE of this build
    tiles,          \* Renderer::tiles, the sequence of tile origins <<x, y>>
    prebuffer,      \* Renderer::prebuffer, pixel index -> running radiance sum
    buffer,         \* Renderer::buffer, pixel index -> quantised output channel
    currentSample,  \* Renderer::currentSample
    cam,            \* Renderer::cam, [pose, focusDistance]
    BVH_DEBUG,      \* the debug-mode flag toggled by key B
    scene,          \* Renderer::primitives and Renderer::lights (fixed after setup)
    pc,             \* orchestrating thread: "idle", or "render" inside the parallel loop
    done,           \* tiles whose parallel-loop iteration has finished in this frame
    tick,           \* position in Game::Tick: "api" (no tick running), "events"
                    \* (between ticks), the flag whose `if` is next, "frame", "display"
    keys,           \* the key flags of game.cpp that are true
    importance,     \* the value getOutput computed last for 1 / (currentSample - 1)
    lastCall,       \* the renderer operation that returned last
    writes,         \* history: pixel index -> writes to prebuffer in the current frame
    taken,          \* history: pixel index -> samples accumulated since the last reset
    sampleSum,      \* history: pixel index -> sum of those samples
    stack,          \* the active calls of shootRay( ray, depth ), outermost first
    ret             \* the call of shootRay that returned last and its value

vars == <<cfg, tiles, prebuffer, buffer, currentSample, cam, BVH_DEBUG, scene,
          pc, done, tick, keys, importance, lastCall, writes, taken, sampleSum,
          stack, ret>>

\* the renderer's state outside the integrator
renderer == <<cfg, tiles, prebuffer, buffer, currentSample, cam, BVH_DEBUG, scene,
              pc, done, tick, keys, importance, lastCall, writes, taken, sampleSum>>

history == <<writes, taken, sampleSum>>

SCRWIDTH == cfg.w
SCRHEIGHT == cfg.h
TILESIZE == cfg.tile

Pixels == 0 .. (SCRWIDTH * SCRHEIGHT - 1)

\* ------------------------------------------------------------------ floats
\* Floats are modelled exactly: a finite value [n, d, r] is the r-th root of
\* n / d; the two special values carry their kind.
Fin(n, d, r) == [k |-> "fin", n |-> n, d |-> d, r |-> r]
Inf == [k |-> "inf", n |-> 1, d |-> 0, r |-> 1]
NaN == [k |-> "nan", n |-> 0, d |-> 0, r |-> 1]
\* before the first readout no importance has been computed
NoFloat == [k |-> "none", n |-> 0, d |-> 0, r |-> 1]

\* --------------------------------------------------------------- integrator
\* Radiance values of the integrator are integers in units of 1 / Unit, so that
\* the halves by which the modelled surfaces blend and attenuate stay exact down
\* to the deepest call.
Unit == 4 ^ MAXRAYDEPTH

\* the nearest hit of a ray that hits nothing (Renderer.cpp:237)
NoHit ==
    [mat |-> "none", diffuse |-> 0, light |-> 0, emission |-> 0,
     spec |-> 0, kr |-> 0, hitType |-> 0, attenuation |-> 2, refractionIndex |-> 1]

\* The nearest hits tried: the material with its diffuse colour (0 or 1), the
\* light intensity at the hit (ambient light plus the unshadowed lights), the
\* emission, and in halves the mirror's spec, the Fresnel reflectance kr of a
\* glass hit and the attenuation of a glass hit from inside (hitType -1).  The
\* glass tried has the index of refraction 2.
Surfaces ==
    {[NoHit EXCEPT !.mat = "LAMBERTIAN_MAT", !.diffuse = 1, !.light = Unit]}
    \cup {[NoHit EXCEPT !.mat = "EMIT_MAT", !.diffuse = d, !.light = Unit,
                        !.emission = 2 * Unit] : d \in {0, 1}}
    \cup {[NoHit EXCEPT !.mat = "MIRROR_MAT", !.diffuse = 1, !.light = l,
                        !.spec = 1] : l \in {0, Unit}}
    \cup {[NoHit EXCEPT !.mat = "GLASS_MAT", !.diffuse = 1, !.light = Unit,
                        !.kr = k, !.hitType = t[1], !.attenuation = t[2],
                        !.refractionIndex = 2] :
             k \in {0, 1, 2}, t \in {<<1, 2>>, <<0 - 1, 1>>}}

\* Renderer.cpp:160, the index of refraction of the medium outside the objects
etaI == 1

\* The indices a ray built by `Ray r;` and not assigned to can carry.  The
\* declaration of Ray is not among the sources; a ray is taken to start with the
\* index of the medium outside the objects, in which the camera's rays start.
DefaultIndices == {etaI}

\* no call of getRefractedRay has been made
NoPair == <<0, 0>>

\* a call of shootRay( ray, depth ) that has not looked for its hit yet; index is
\* ray.refractionIndex, pair the ( n1, n2 ) the call passed to getRefractedRay
Call(depth) ==
    [depth |-> depth, stage |-> "enter", hit |-> NoHit, refracted |-> 0, calls |-> 0,
     index |-> etaI, pair |-> NoPair]

\* no call of shootRay has returned
NoReturn == [v |-> 0, of |-> Call(0), fresh |-> FALSE]

\* ------------------------------------------------------------ construction
\* Renderer.cpp:17-21, the inner loop: x = x0, x0 + t, ... while x < w
RECURSIVE TileRow(_, _, _, _)
TileRow(x, y, w, t) ==
    IF x < w THEN <<<<x, y>>>> \o TileRow(x + t, y, w, t) ELSE <<>>

\* Renderer.cpp:15-22, the outer loop: y = y0, y0 + t, ... while y < h
RECURSIVE TileRows(_, _, _, _)
TileRows(y, w, h, t) ==
    IF y < h THEN TileRow(0, y, w, t) \o TileRows(y + t, w, h, t) ELSE <<>>

BuildTiles(w, h, t) == TileRows(0, w, h, t)

\* marks an entry of `new Pixel[...]` that no readout has written yet
Unwritten == 0 - 1

Zeroed(w, h) == [p \in 0 .. (w * h - 1) |-> 0]

\* Renderer::Renderer for a build with geometry c
Construct(c) ==
    /\ cfg = c
    /\ currentSample = 1
    /\ prebuffer = Zeroed(c.w, c.h)
    /\ buffer = [p \in 0 .. (c.w * c.h - 1) |-> Unwritten]
    /\ tiles = BuildTiles(c.w, c.h, c.tile)
    /\ cam = [pose |-> 0, focusDistance |-> 1]
    /\ BVH_DEBUG = FALSE
    /\ scene = [primitives |-> "primitives", lights |-> "lights"]
    /\ pc = "idle"
    /\ done = {}
    /\ importance = NoFloat
    /\ lastCall = "Renderer"
    /\ writes = Zeroed(c.w, c.h)
    /\ taken = Zeroed(c.w, c.h)
    /\ sampleSum = Zeroed(c.w, c.h)
    /\ stack = <<>>
    /\ ret = NoReturn

\* the frames of the tick specification: every width and height up to MaxDim
\* with every tile size from 2 up to MaxTile (tiles that divide the frame, ragged
\* edge tiles, tiles larger than the frame)
Geometries ==
    [w : 1 .. MaxDim, h : 1 .. MaxDim, tile : 2 .. MaxTile]

\* the frames of the call-level specification: one pixel; two pixels in two
\* tiles; two pixels in one tile clipped at the frame's edge
CallGeometries ==
    {[w |-> 1, h |-> 1, tile |-> 1],
     [w |-> 2, h |-> 1, tile |-> 1],
     [w |-> 1, h |-> 2, tile |-> 3]}

\* game.cpp:148-165: no key flag is set when the program starts
NoKeys == {}

Init == /\ \E c \in CallGeometries : Construct(c)
        /\ tick = "api"
        /\ keys = NoKeys

\* ------------------------------------------------------------- renderFrame
\* Renderer.cpp:48, the guard of the accumulating branch
MayAccumulate == currentSample < SAMPLES

\* the clipping test without its test of the column
InFrameRowsOnly(x, y) == y < SCRHEIGHT

\* Renderer.cpp:60, the clipping test of a ragged edge tile
InFrame(x, y) == x < SCRWIDTH /\ y < SCRHEIGHT

\* Renderer.cpp:62, the prebuffer index of pixel (x, y)
Index(x, y) == y * SCRWIDTH + x

\* Renderer.cpp:53-65: the pixels the loop iteration of tile i accumulates
TilePixels(i) ==
    LET x == tiles[i][1]
        y == tiles[i][2]
    IN  {c \in {<<x + dx, y + dy>> : dx \in 0 .. (TILESIZE - 1),
                                      dy \in 0 .. (TILESIZE - 1)} :
            InFrame(c[1], c[2])}

RECURSIVE SumOver(_, _)
SumOver(S, f) ==
    IF S = {} THEN 0
    ELSE LET c == CHOOSE c \in S : TRUE IN f[c] + SumOver(S \ {c}, f)

\* `prebuffer[index] = sample`: the sample replaces the sum
AccumulateOverwrite(buf, i, s) ==
    [p \in DOMAIN buf |->
        IF \E c \in TilePixels(i) : Index(c[1], c[2]) = p
        THEN SumOver({c \in TilePixels(i) : Index(c[1], c[2]) = p}, s)
        ELSE buf[p]]

\* Renderer.cpp:62, `prebuffer[index] += sample` for every pixel of tile i,
\* where s gives the sample shootRay returned for each pixel of the tile
Accumulate(buf, i, s) ==
    [p \in DOMAIN buf |->
        buf[p] + SumOver({c \in TilePixels(i) : Index(c[1], c[2]) = p}, s)]

\* number of pixels of tile i stored at index p
Hits(i, p) == Cardinality({c \in TilePixels(i) : Index(c[1], c[2]) = p})

\* Renderer.cpp:46-50: the call enters the accumulating branch and forks
RenderFrameBegin(t) ==
    /\ pc = "idle" /\ tick = t
    /\ MayAccumulate
    /\ pc' = "render"
    /\ done' = {}
    /\ writes' = [p \in Pixels |-> 0]
    /\ UNCHANGED <<stack, ret, keys, cfg, tiles, prebuffer, buffer, currentSample, cam, BVH_DEBUG,
                   scene, tick, importance, lastCall, taken, sampleSum>>

\* Renderer.cpp:51-66: one iteration of the parallel loop, run by some worker;
\* R is the set of radiance values shootRay can return in the scene
TileWorker(i, R) ==
    /\ pc = "render"
    /\ i \in (1 .. Len(tiles)) \ done
    /\ \E s \in [TilePixels(i) -> R] :
          /\ prebuffer' = Accumulate(prebuffer, i, s)
          /\ sampleSum' = [p \in Pixels |->
                sampleSum[p] + SumOver({c \in DOMAIN s : Index(c[1], c[2]) = p}, s)]
    /\ writes' = [p \in Pixels |-> writes[p] + Hits(i, p)]
    /\ taken' = [p \in Pixels |-> taken[p] + Hits(i, p)]
    /\ done' = done \cup {i}
    /\ UNCHANGED <<stack, ret, keys, cfg, tiles, buffer, currentSample, cam, BVH_DEBUG, scene,
                   pc, tick, importance, lastCall>>

\* a loop without its barrier: the caller goes on once one tile has finished
JoinedNoBarrier == done # {}

\* the implicit barrier that ends the parallel loop (Renderer.cpp:66)
Joined == done = 1 .. Len(tiles)

\* Renderer.cpp:67, run by the calling thread after the loop; the call returns
RenderFrameJoin(t, after) ==
    /\ pc = "render" /\ tick = t
    /\ Joined
    /\ currentSample' = currentSample + 1
    /\ pc' = "idle"
    /\ tick' = after
    /\ lastCall' = "renderFrame"
    /\ UNCHANGED <<stack, ret, keys, cfg, tiles, prebuffer, buffer, cam, BVH_DEBUG, scene, done,
                   importance, writes, taken, sampleSum>>

\* Renderer.cpp:69-73, the idle branch: the call only sleeps
RenderFrameSleep(t, after) ==
    /\ pc = "idle" /\ tick = t
    /\ ~MayAccumulate
    /\ tick' = after
    /\ lastCall' = "Sleep"
    /\ UNCHANGED <<stack, ret, keys, cfg, tiles, prebuffer, buffer, currentSample, cam, BVH_DEBUG,
                   scene, pc, done, importance, writes, taken, sampleSum>>

\* ------------------------------------------------------ invalidatePrebuffer
\* the reset without its last line: the counter is left as it is
invalidatePrebufferKeepsCounter ==
    /\ prebuffer' = [p \in Pixels |-> 0]
    /\ currentSample' = currentSample

\* Renderer.cpp:400-408
invalidatePrebuffer ==
    /\ prebuffer' = [p \in Pixels |-> 0]
    /\ currentSample' = 1

\* the samples recorded for the accumulation are discarded with it
Forget ==
    /\ writes' = [p \in Pixels |-> 0]
    /\ taken' = [p \in Pixels |-> 0]
    /\ sampleSum' = [p \in Pixels |-> 0]

\* a direct call of Renderer::invalidatePrebuffer
InvalidatePrebuffer ==
    /\ pc = "idle" /\ tick = "api"
    /\ invalidatePrebuffer
    /\ Forget
    /\ lastCall' = IF lastCall \in {"invalidatePrebuffer", "invalidatePrebuffer again"}
                   THEN "invalidatePrebuffer again"
                   ELSE "invalidatePrebuffer"
    /\ UNCHANGED <<stack, ret, keys, cfg, tiles, buffer, cam, BVH_DEBUG, scene, pc, done, tick,
                   importance>>

\* ---------------------------------------------------------- camera commands
\* Camera::move / rotate / zoom / changeAperture: the pose after the command
\* (a clamped zoom or aperture may leave it as it was)
CameraPoses == {0, 1}

\* Renderer.cpp:92-96
moveCam(q) ==
    /\ invalidatePrebuffer
    /\ cam' = [cam EXCEPT !.pose = q]

\* Renderer.cpp:99-103
rotateCam(q) ==
    /\ invalidatePrebuffer
    /\ cam' = [cam EXCEPT !.pose = q]

\* Renderer.cpp:105-109
zoomCam(q) ==
    /\ invalidatePrebuffer
    /\ cam' = [cam EXCEPT !.pose = q]

\* Renderer.cpp:111-115
changeAperture(q) ==
    /\ invalidatePrebuffer
    /\ cam' = [cam EXCEPT !.pose = q]

\* focusing without the reset
focusCamKeepsSamples(t) ==
    /\ cam' = [cam EXCEPT !.focusDistance = t]
    /\ UNCHANGED <<prebuffer, currentSample>>

\* Renderer.cpp:117-123, t the distance of the focus ray's hit
focusCam(t) ==
    /\ invalidatePrebuffer
    /\ cam' = [cam EXCEPT !.focusDistance = t]

\* what a camera command leaves alone
CommandFrame(name) ==
    /\ Forget
    /\ lastCall' = name
    /\ UNCHANGED <<stack, ret, keys, cfg, tiles, buffer, BVH_DEBUG, scene, pc, done, tick, importance>>

MoveCam ==
    /\ pc = "idle" /\ tick = "api"
    /\ \E q \in CameraPoses : moveCam(q)
    /\ CommandFrame("moveCam")

RotateCam ==
    /\ pc = "idle" /\ tick = "api"
    /\ \E q \in CameraPoses : rotateCam(q)
    /\ CommandFrame("rotateCam")

ZoomCam ==
    /\ pc = "idle" /\ tick = "api"
    /\ \E q \in CameraPoses : zoomCam(q)
    /\ CommandFrame("zoomCam")

ChangeAperture ==
    /\ pc = "idle" /\ tick = "api"
    /\ \E q \in CameraPoses : changeAperture(q)
    /\ CommandFrame("changeAperture")

FocusCam ==
    /\ pc = "idle" /\ tick = "api"
    /\ \E t \in Distances : focusCam(t)
    /\ CommandFrame("focusCam")

\* game.cpp:392-395, Game::KeyDown for SDL_SCANCODE_B
KeyDownB ==
    /\ pc = "idle" /\ tick = "api"
    /\ invalidatePrebuffer
    /\ BVH_DEBUG' = ~BVH_DEBUG
    /\ Forget
    /\ lastCall' = "KeyDownB"
    /\ UNCHANGED <<stack, ret, keys, cfg, tiles, buffer, cam, scene, pc, done, tick, importance>>

\* ---------------------------------------------------------------- getOutput
\* Renderer.cpp:129, 1.f / float( k )
Reciprocal(k) == IF k = 0 THEN Inf ELSE Fin(1, k, 1)

\* Renderer.cpp:132, prebuffer[i] * importance
Scale(s, imp) ==
    IF imp.k = "inf" THEN (IF s = 0 THEN NaN ELSE Inf)
    ELSE Fin(s * imp.n, imp.d, 1)

\* Renderer.cpp:439-448, the square root of a channel
gammaCorrect(v) == IF v.k = "fin" THEN [v EXCEPT !.r = 2] ELSE v

\* Renderer.cpp:144-154 with lo = 0, hi = 1 (no value here is negative); every
\* comparison with a NaN is false, so a NaN passes unchanged
clampFloat(v) ==
    IF v.k = "nan" THEN NaN
    ELSE IF v.k = "inf" THEN Fin(1, 1, 1)
    ELSE IF v.n > v.d THEN Fin(1, 1, 1)
    ELSE v

Byte == 0 .. 255

\* outcomes tried for the conversion of a NaN to unsigned char, which is
\* undefined: the conversion may yield any byte
UndefinedBytes == {0, 255}

\* Renderer.cpp:416, (unsigned char)( v * 255 ) of a clamped channel: the
\* largest byte b with b <= 255 * v
Quantise(v) ==
    IF v.k = "nan" THEN UndefinedBytes
    ELSE IF v.r = 1
         THEN {(255 * v.n) \div v.d}
         ELSE {CHOOSE b \in Byte :
                  /\ b * b * v.d <= 255 * 255 * v.n
                  /\ (b = 255 \/ (b + 1) * (b + 1) * v.d > 255 * 255 * v.n)}

\* Renderer.cpp:410-427
rgb(v) == Quantise(clampFloat(v))

\* Renderer.cpp:132, the bytes one channel of pixel p can come out as
Channel(p, imp) == rgb(gammaCorrect(Scale(prebuffer[p], imp)))

\* Renderer.cpp:125-136
getOutput ==
    LET imp == Reciprocal(currentSample - 1)
        undefined == {p \in Pixels : Scale(prebuffer[p], imp).k = "nan"}
    IN  /\ importance' = imp
        /\ \E u \in [undefined -> UndefinedBytes] :
              buffer' = [p \in Pixels |->
                            IF p \in undefined THEN u[p]
                            ELSE CHOOSE b \in Channel(p, imp) : TRUE]

GetOutput ==
    /\ pc = "idle" /\ tick = "api"
    /\ getOutput
    /\ lastCall' = "getOutput"
    /\ UNCHANGED <<stack, ret, keys, cfg, tiles, prebuffer, currentSample, cam, BVH_DEBUG, scene,
                   pc, done, tick, writes, taken, sampleSum>>

\* ----------------------------------------------------------------- shootRay
\* the innermost active call
Top == stack[Len(stack)]

\* the active calls with the innermost replaced by f
WithTop(f) == [stack EXCEPT ![Len(stack)] = f]

\* a recursive call passes depth for depth - 1
ChildDepthSame(depth) == depth

\* Renderer.cpp:257, 287, 297: the depth passed to a recursive call
ChildDepth(depth) == depth - 1

\* the last branch returning black
NoShading(h) == 0

\* Renderer.cpp:305, getDiffuse( u, v ) * lightIntensity
LocalShading(h) == h.diffuse * h.light

\* Renderer.cpp:258-260, spec in halves
MirrorColor(h, specular) ==
    (LocalShading(h) * (2 - h.spec) + h.spec * specular) \div 2

\* Renderer.cpp:289, refracted *= attenuation, the attenuation in halves
Attenuated(h, refracted) == (refracted * h.attenuation) \div 2

\* Renderer.cpp:300, reflected * kr + refracted * ( 1 - kr ), kr in halves
GlassColor(h, reflected, refracted) ==
    (reflected * h.kr + refracted * (2 - h.kr)) \div 2

\* Renderer.cpp:253, 263: the call recurses on this hit
Recurses(depth, h) == depth > 0 /\ h.mat \in {"MIRROR_MAT", "GLASS_MAT"}

\* the innermost call returns v to its caller
Return(f, v) ==
    /\ stack' = SubSeq(stack, 1, Len(stack) - 1)
    /\ ret' = [v |-> v, of |-> f, fresh |-> TRUE]

\* Renderer.cpp:185-193: the index the reflected ray carries
getReflectedRay == DefaultIndices

\* Renderer.cpp:274, the ( n1, n2 ) of getRefractedRay( r.refractionIndex,
\* closestHit.mat.refractionIndex, ... ) for the call f
getRefractedRay(f) == <<f.index, f.hit.refractionIndex>>

\* Renderer.cpp:274-281: the index the refracted ray carries into the recursive
\* call, assigned only on a hit from inside
RefractedIndex(h) ==
    IF h.hitType = 0 - 1 THEN {h.refractionIndex} ELSE DefaultIndices

\* the innermost call, now f, calls shootRay recursively with a ray of index n
Recurse(f, n) ==
    /\ stack' = Append(WithTop([f EXCEPT !.calls = f.calls + 1]),
                       [Call(ChildDepth(f.depth)) EXCEPT !.index = n])
    /\ ret' = NoReturn

\* Renderer::shootRay( x, y, depth ) (Renderer.cpp:138-142): a primary ray, as
\* Camera::getRay built it
ShootRay ==
    /\ stack = <<>>
    /\ \E depth \in 0 .. MAXRAYDEPTH, n \in DefaultIndices :
          stack' = <<[Call(depth) EXCEPT !.index = n]>>
    /\ ret' = NoReturn
    /\ UNCHANGED renderer

\* Renderer.cpp:213-306 up to the first recursive call or the return: the
\* nearest hit h is found and the material dispatched on
ShootEnter ==
    /\ stack # <<>>
    /\ Top.stage = "enter"
    /\ \E h \in Surfaces \cup {NoHit} :
          LET f == [Top EXCEPT !.hit = h] IN
          IF h.mat = "none" THEN Return(f, 0)
          ELSE IF Recurses(f.depth, h) /\ h.mat = "MIRROR_MAT"
               THEN \E n \in getReflectedRay :
                       Recurse([f EXCEPT !.stage = "mirror"], n)
          ELSE IF Recurses(f.depth, h)
               THEN IF h.kr < 2
                    THEN \E n \in RefractedIndex(h) :
                            Recurse([f EXCEPT !.stage = "refract",
                                              !.pair = getRefractedRay(f)], n)
                    ELSE \E n \in getReflectedRay :
                            Recurse([f EXCEPT !.stage = "reflect"], n)
          ELSE Return(f, LocalShading(h))
    /\ UNCHANGED renderer

\* Renderer.cpp:257-300 from the return of a recursive call on: the caller
\* takes the value, and calls again or returns
ShootResume ==
    /\ stack # <<>>
    /\ ret.fresh
    /\ LET f == Top
           h == Top.hit
       IN  CASE f.stage = "mirror" -> Return(f, MirrorColor(h, ret.v))
             [] f.stage = "refract" ->
                  LET g == [f EXCEPT !.refracted = Attenuated(h, ret.v)] IN
                  IF h.kr > 0
                  THEN \E n \in getReflectedRay :
                          Recurse([g EXCEPT !.stage = "reflect"], n)
                  ELSE Return(g, GlassColor(h, 0, g.refracted))
             [] f.stage = "reflect" ->
                  Return(f, GlassColor(h, ret.v, f.refracted))
    /\ UNCHANGED renderer

InitShoot ==
    /\ Construct([w |-> 1, h |-> 1, tile |-> 1])
    /\ tick = "api"
    /\ keys = NoKeys

NextShoot == ShootRay \/ ShootEnter \/ ShootResume

\* a call that has been made runs on until it returns
SpecShoot ==
    InitShoot /\ [][NextShoot]_vars /\ WF_vars(ShootEnter \/ ShootResume)

\* ------------------------------------------------------------ specification
\* Renderer::renderFrame called on its own
RenderFrame ==
    \/ RenderFrameBegin("api")
    \/ \E i \in 1 .. Len(tiles) : TileWorker(i, Radiance)
    \/ RenderFrameJoin("api", "api")
    \/ RenderFrameSleep("api", "api")

\* the renderer's operations called in any order by one thread
Next ==
    \/ RenderFrame
    \/ InvalidatePrebuffer
    \/ MoveCam
    \/ RotateCam
    \/ ZoomCam
    \/ ChangeAperture
    \/ FocusCam
    \/ KeyDownB
    \/ GetOutput

Spec == Init /\ [][Next]_vars

\* ------------------------------------------------------------------- ticks
\* game.cpp:262-264, Game::Tick renders the frame ...
TickRenderFrame ==
    \/ RenderFrameBegin("frame")
    \/ \E i \in 1 .. Len(tiles) : TileWorker(i, UnitRadiance)
    \/ RenderFrameJoin("frame", "display")
    \/ RenderFrameSleep("frame", "display")

\* game.cpp:269, ... and then displays the renderer's output
TickDisplay ==
    /\ pc = "idle" /\ tick = "display"
    /\ getOutput
    /\ tick' = "frame"
    /\ lastCall' = "getOutput"
    /\ UNCHANGED <<stack, ret, keys, cfg, tiles, prebuffer, currentSample, cam, BVH_DEBUG, scene,
                   pc, done, writes, taken, sampleSum>>

InitTick == /\ \E c \in Geometries : Construct(c)
            /\ tick = "frame"
            /\ keys = NoKeys

NextTick == TickRenderFrame \/ TickDisplay

SpecTick == InitTick /\ [][NextTick]_vars

\* --------------------------------------------------------- application loop
\* game.cpp:174-257: the key flags in the order in which Game::Tick tests them
Flags ==
    <<"moveLeft", "moveRight", "moveUp", "moveDown", "moveForward", "moveBackward",
      "rotLeft", "rotRight", "rotUp", "rotDown", "rotCW", "rotCCW",
      "focusCam", "zoomIn", "zoomOut", "apertureUp", "apertureDown">>

\* game.cpp:174-257: the renderer command the `if` of flag number k calls
CommandOf(k) ==
    IF k <= 6 THEN "moveCam"
    ELSE IF k <= 12 THEN "rotateCam"
    ELSE IF k = 13 THEN "focusCam"
    ELSE IF k <= 15 THEN "zoomCam"
    ELSE "changeAperture"

\* game.cpp:307-433: the flag each of the keys tried sets and clears
FlagOfKey ==
    [SDL_SCANCODE_A |-> "moveLeft", SDL_SCANCODE_LEFT |-> "rotLeft",
     SDL_SCANCODE_F |-> "focusCam", SDL_SCANCODE_T |-> "zoomIn",
     SDL_SCANCODE_X |-> "apertureDown"]

\* the number of flag f in Flags
FlagNumber(f) == CHOOSE k \in 1 .. Len(Flags) : Flags[k] = f

\* a tick that displays right after its input, without rendering
AfterInputDisplay == "display"

\* game.cpp:259-264: after the last `if` of its input Game::Tick renders
AfterInput == "frame"

\* game.cpp:174-257: where Game::Tick goes on after the `if` of flag number k
\* (0: from its start): at the next flag that is set, or after the input
NextIf(k) ==
    LET later == {j \in (k + 1) .. Len(Flags) : Flags[j] \in keys} IN
    IF later = {} THEN AfterInput
    ELSE Flags[CHOOSE j \in later : \A i \in later : j <= i]

\* what an event handler that calls the renderer leaves alone
EventFrame(name) ==
    /\ Forget
    /\ lastCall' = name
    /\ UNCHANGED <<stack, ret, keys, cfg, tiles, buffer, scene, pc, done, tick, importance>>

\* game.cpp:302-305, Game::MouseMove
MouseMove ==
    /\ pc = "idle" /\ tick = "events"
    /\ \E q \in CameraPoses : rotateCam(q)
    /\ BVH_DEBUG' = BVH_DEBUG
    /\ EventFrame("rotateCam")

\* game.cpp:367-433, Game::KeyDown for a key that sets a flag
KeyDown ==
    /\ pc = "idle" /\ tick = "events"
    /\ \E key \in DOMAIN FlagOfKey : keys' = keys \cup {FlagOfKey[key]}
    /\ UNCHANGED <<stack, ret, cfg, tiles, prebuffer, buffer, currentSample, cam, BVH_DEBUG,
                   scene, pc, done, tick, importance, lastCall, writes, taken, sampleSum>>

\* game.cpp:392-395, Game::KeyDown for SDL_SCANCODE_B between two ticks
KeyDownDebug ==
    /\ pc = "idle" /\ tick = "events"
    /\ invalidatePrebuffer
    /\ BVH_DEBUG' = ~BVH_DEBUG
    /\ cam' = cam
    /\ EventFrame("KeyDownB")

\* game.cpp:307-365, Game::KeyUp for a key that clears a flag
KeyUp ==
    /\ pc = "idle" /\ tick = "events"
    /\ \E key \in DOMAIN FlagOfKey : keys' = keys \ {FlagOfKey[key]}
    /\ UNCHANGED <<stack, ret, cfg, tiles, prebuffer, buffer, currentSample, cam, BVH_DEBUG,
                   scene, pc, done, tick, importance, lastCall, writes, taken, sampleSum>>

\* game.cpp:171-174: Game::Tick is called and runs up to its first command
TickBegin ==
    /\ pc = "idle" /\ tick = "events"
    /\ tick' = NextIf(0)
    /\ UNCHANGED <<stack, ret, keys, cfg, tiles, prebuffer, buffer, currentSample, cam,
                   BVH_DEBUG, scene, pc, done, importance, lastCall, writes, taken,
                   sampleSum>>

\* what a command of the tick's input leaves alone; k is the flag's number
InputFrame(k) ==
    /\ Forget
    /\ lastCall' = CommandOf(k)
    /\ tick' = NextIf(k)
    /\ UNCHANGED <<stack, ret, keys, cfg, tiles, buffer, BVH_DEBUG, scene, pc, done,
                   importance>>

\* the tick is at the `if` of a flag that is set and whose command is name
AtCommand(name) ==
    /\ pc = "idle"
    /\ tick \in keys
    /\ CommandOf(FlagNumber(tick)) = name

\* game.cpp:174-202
TickMoveCam ==
    /\ AtCommand("moveCam")
    /\ \E q \in CameraPoses : moveCam(q)
    /\ InputFrame(FlagNumber(tick))

\* game.cpp:204-232
TickRotateCam ==
    /\ AtCommand("rotateCam")
    /\ \E q \in CameraPoses : rotateCam(q)
    /\ InputFrame(FlagNumber(tick))

\* game.cpp:234-237
TickFocusCam ==
    /\ AtCommand("focusCam")
    /\ \E t \in Distances : focusCam(t)
    /\ InputFrame(FlagNumber(tick))

\* game.cpp:239-247
TickZoomCam ==
    /\ AtCommand("zoomCam")
    /\ \E q \in CameraPoses : zoomCam(q)
    /\ InputFrame(FlagNumber(tick))

\* game.cpp:249-257
TickChangeAperture ==
    /\ AtCommand("changeAperture")
    /\ \E q \in CameraPoses : changeAperture(q)
    /\ InputFrame(FlagNumber(tick))

\* game.cpp:262-264, the tick's call of renderFrame
LoopRenderFrame ==
    \/ RenderFrameBegin("frame")
    \/ \E i \in 1 .. Len(tiles) : TileWorker(i, UnitRadiance)
    \/ RenderFrameJoin("frame", "display")
    \/ RenderFrameSleep("frame", "display")

\* game.cpp:268-298: the tick displays the renderer's output and returns
LoopDisplay ==
    /\ pc = "idle" /\ tick = "display"
    /\ getOutput
    /\ tick' = "events"
    /\ lastCall' = "getOutput"
    /\ UNCHANGED <<stack, ret, keys, cfg, tiles, prebuffer, currentSample, cam, BVH_DEBUG,
                   scene, pc, done, writes, taken, sampleSum>>

\* game.cpp:71, 130: the renderer is constructed before the first event or tick
InitLoop ==
    /\ \E c \in CallGeometries : Construct(c)
    /\ tick = "events"
    /\ keys = NoKeys

\* events in any number and order between two ticks, and the steps of a tick
NextLoop ==
    \/ MouseMove
    \/ KeyDown
    \/ KeyDownDebug
    \/ KeyUp
    \/ TickBegin
    \/ TickMoveCam
    \/ TickRotateCam
    \/ TickFocusCam
    \/ TickZoomCam
    \/ TickChangeAperture
    \/ LoopRenderFrame
    \/ LoopDisplay

SpecLoop == InitLoop /\ [][NextLoop]_vars

\* ------------------------------------------------------------------ claims
Commands ==
    {"moveCam", "rotateCam", "zoomCam", "changeAperture", "focusCam", "KeyDownB"}

\* the byte of the gamma-corrected mean of k samples that add up to sum
IsMeanByte(b, sum, k) ==
    \/ b = 255 /\ sum >= k
    \/ /\ b < 255
       /\ b * b * k <= 255 * 255 * sum
       /\ (b + 1) * (b + 1) * k > 255 * 255 * sum

\* C1: between calls, every pixel's running sum is the sum of the samples taken
\* for it since the last reset and there are currentSample - 1 of them; a
\* readout after at least one frame scales by 1 / (currentSample - 1), so that
\* every pixel comes out as the (gamma-corrected, quantised) mean of its samples.
C1_RunningSum ==
    pc = "idle" =>
        /\ \A p \in Pixels :
              /\ taken[p] = currentSample - 1
              /\ prebuffer[p] = sampleSum[p]
        /\ (lastCall = "getOutput" /\ currentSample > 1) =>
              /\ importance = Fin(1, currentSample - 1, 1)
              /\ \A p \in Pixels : IsMeanByte(buffer[p], sampleSum[p], taken[p])

\* two frames were accumulated with different samples for a pixel and read out
C1_Witness ==
    /\ lastCall = "getOutput"
    /\ currentSample = 3
    /\ \E p \in Pixels : sampleSum[p] = 1 /\ buffer[p] = 180

\* C2: right after a camera command or the debug toggle returns, the
\* accumulation is reset: every prebuffer entry is zero and currentSample = 1.
C2_CommandsInvalidate ==
    (pc = "idle" /\ lastCall \in Commands) =>
        /\ \A p \in Pixels : prebuffer[p] = 0
        /\ currentSample = 1

\* a command returned after samples had been accumulated and read out
C2_Witness ==
    /\ pc = "idle"
    /\ lastCall = "focusCam"
    /\ importance = Fin(1, 2, 1)
    /\ \E p \in Pixels : buffer[p] = 255

\* the pixel coordinates of the frame
Frame == (0 .. (SCRWIDTH - 1)) \X (0 .. (SCRHEIGHT - 1))

\* C3: every pixel of the frame lies in exactly one tile's clipped range; no
\* prebuffer entry is written twice in a frame, and when renderFrame returns
\* every entry has been written exactly once.
C3_TilesPartition ==
    /\ \A c \in Frame :
          Cardinality({i \in 1 .. Len(tiles) : c \in TilePixels(i)}) = 1
    /\ \A p \in Pixels : writes[p] <= 1
    /\ lastCall = "renderFrame" => \A p \in Pixels : writes[p] = 1

\* a frame with ragged tiles on both edges has been rendered
C3_Witness ==
    /\ lastCall = "renderFrame"
    /\ SCRWIDTH % TILESIZE # 0 /\ SCRHEIGHT % TILESIZE # 0
    /\ Len(tiles) = 4

\* C4: the counter changes only by the calling thread's increment after all
\* tiles have finished; a tile accumulates a pixel only when the counter
\* updates of all earlier iterations of that pixel are done; the tick's readout
\* runs when the frame's tiles have all finished.
C4_CounterAfterJoin ==
    [][/\ currentSample' # currentSample =>
             /\ pc = "render" /\ pc' = "idle"
             /\ done = 1 .. Len(tiles)
             /\ currentSample' = currentSample + 1
             /\ prebuffer' = prebuffer
       /\ \A p \in Pixels :
             prebuffer'[p] # prebuffer[p] => taken[p] = currentSample - 1
       /\ (lastCall' = "getOutput" /\ lastCall # "getOutput") =>
             /\ pc = "idle"
             /\ done = 1 .. Len(tiles)
             /\ \A p \in Pixels : taken[p] = currentSample - 1]_vars

\* a tick has read out a frame rendered by four tiles
C4_Witness ==
    /\ lastCall = "getOutput"
    /\ Len(tiles) = 4
    /\ currentSample = 2

\* C5 as claimed: a renderFrame call that finds the maximum reached leaves the
\* accumulation and the counter as they are, and SAMPLES iterations have been
\* accumulated for every pixel by then.
C5_IdleAtMaximum ==
    [][(lastCall' = "Sleep" /\ lastCall # "Sleep") =>
          /\ prebuffer' = prebuffer
          /\ currentSample' = currentSample
          /\ \A p \in Pixels : taken[p] = SAMPLES]_vars

\* C6 as claimed: a readout with currentSample = 1 divides by no zero and
\* yields zero for every pixel.
C6_FirstReadoutZero ==
    (lastCall = "getOutput" /\ currentSample = 1) =>
        /\ importance.k = "fin"
        /\ \A p \in Pixels : buffer[p] = 0

\* C7: a call of invalidatePrebuffer leaves every entry zero and the counter 1
\* and changes neither the camera, the tiles, the scene, the output buffer nor
\* the debug flag; a second call in a row changes nothing at all.
C7_InvalidateIdempotent ==
    [][/\ (/\ pc = "idle" /\ pc' = "idle"
           /\ lastCall' \in {"invalidatePrebuffer", "invalidatePrebuffer again"}) =>
             /\ \A p \in Pixels : prebuffer'[p] = 0
             /\ currentSample' = 1
             /\ <<cam, tiles, scene, buffer, BVH_DEBUG, cfg>>'
                  = <<cam, tiles, scene, buffer, BVH_DEBUG, cfg>>
       /\ (lastCall = "invalidatePrebuffer" /\ lastCall' = "invalidatePrebuffer again") =>
             /\ prebuffer' = prebuffer
             /\ currentSample' = currentSample]_vars

\* invalidatePrebuffer was called twice in a row after a frame had been
\* accumulated and read out
C7_Witness ==
    /\ lastCall = "invalidatePrebuffer again"
    /\ importance = Fin(1, 1, 1)
    /\ \E p \in Pixels : buffer[p] = 255

\* C8: every active call but the outermost was made by a caller with depth > 0
\* and got that depth less one, so that a call started with depth d nests at
\* most d + 1 deep; a call with depth 0 returns without a recursive call; and
\* every call returns.
C8_DepthBounded ==
    /\ [](stack # <<>> =>
            /\ Len(stack) <= stack[1].depth + 1
            /\ \A k \in 2 .. Len(stack) :
                  /\ stack[k - 1].depth > 0
                  /\ stack[k].depth = stack[k - 1].depth - 1)
    /\ []((ret.fresh /\ ret.of.depth = 0) => ret.of.calls = 0)
    /\ (stack # <<>>) ~> (stack = <<>>)

\* a call that started with the full bounce budget has returned after two
\* recursive calls on a glass hit
C8_Witness ==
    /\ stack = <<>>
    /\ ret.fresh
    /\ ret.of.depth = MAXRAYDEPTH
    /\ ret.of.hit.mat = "GLASS_MAT"
    /\ ret.of.calls = 2

\* C9 as claimed: a call with no remaining depth that hits a mirror or glass
\* returns zero radiance.
C9_ExhaustedIsBlack ==
    (ret.fresh /\ ret.of.depth = 0 /\ ret.of.hit.mat \in {"MIRROR_MAT", "GLASS_MAT"})
        => ret.v = 0

\* C9 amended: a call with no remaining depth that hits a mirror or glass makes
\* no recursive call and returns the hit's diffuse colour times the light
\* intensity at the hit.
C9_ExhaustedIsLocalShading ==
    (ret.fresh /\ ret.of.depth = 0 /\ ret.of.hit.mat \in {"MIRROR_MAT", "GLASS_MAT"})
        => /\ ret.of.calls = 0
           /\ ret.v = ret.of.hit.diffuse * ret.of.hit.light

\* a lit mirror was hit with no remaining depth at the end of a chain of calls
C9_Witness ==
    /\ Len(stack) = MAXRAYDEPTH
    /\ ret.fresh
    /\ ret.of.depth = 0
    /\ ret.of.hit.mat = "MIRROR_MAT"
    /\ ret.v = Unit

\* C10 as claimed: a call whose nearest hit is emissive returns the
\* material's emission, whatever the depth, the lights and the diffuse colour.
C10_EmissiveReturnsEmission ==
    (ret.fresh /\ ret.of.hit.mat = "EMIT_MAT") =>
        /\ ret.of.calls = 0
        /\ ret.v = ret.of.hit.emission

\* the call at position k of the stack traces the refracted ray of its caller
IsRefractedRay(k) ==
    /\ k \in 2 .. Len(stack)
    /\ stack[k - 1].stage = "refract"

\* C11 as claimed: the refracted ray spawned at a glass hit carries the
\* material's index after a hit from outside and the outside medium's index
\* after a hit from inside, and the ( n1, n2 ) passed to getRefractedRay where
\* the refracted ray of an entry leaves the glass is the reverse of the entry's.
C11_IndexCarriedForward ==
    \A k \in 2 .. Len(stack) :
        IsRefractedRay(k) =>
            LET entry == stack[k - 1]
                exit == stack[k]
            IN  /\ entry.hit.hitType = 1 =>
                      exit.index = entry.hit.refractionIndex
                /\ entry.hit.hitType = 0 - 1 => exit.index = etaI
                /\ (/\ entry.hit.hitType = 1
                    /\ exit.hit.hitType = 0 - 1
                    /\ exit.pair # NoPair) =>
                      exit.pair = <<entry.pair[2], entry.pair[1]>>

\* the positions of Game::Tick at the `if` of a flag from number k on
InputFrom(k) == {Flags[j] : j \in k .. Len(Flags)}

\* the step calls a camera command or toggles the debug mode
IsCommandStep ==
    \/ cam' # cam
    \/ BVH_DEBUG' # BVH_DEBUG
    \/ lastCall' \in Commands /\ lastCall' # lastCall

\* the step belongs to a call of renderFrame
IsRenderStep ==
    \/ pc' # pc
    \/ done' # done
    \/ prebuffer' # prebuffer /\ currentSample' = currentSample
    \/ lastCall' \in {"renderFrame", "Sleep"} /\ lastCall' # lastCall

\* the step is a call of getOutput
IsOutputStep ==
    \/ importance' # importance
    \/ buffer' # buffer
    \/ lastCall' = "getOutput" /\ lastCall' # lastCall

\* C12: in the application loop a tick passes from its commands to renderFrame
\* and from renderFrame to getOutput, in this order: commands are called only
\* between ticks (by an event) or in the tick's input, renderFrame's steps are
\* taken only after the input, getOutput is called only after renderFrame has
\* returned; getOutput is never reached with currentSample = 1 and never divides
\* by zero, whatever was invalidated in the tick or before it.
C12_CommandsRenderOutput ==
    /\ []((tick = "display" /\ pc = "idle") => currentSample >= 2)
    /\ [](importance.k \in {"none", "fin"})
    /\ [][/\ IsCommandStep =>
                /\ tick \in {"events"} \cup InputFrom(1)
                /\ tick' \in {"events", "frame"} \cup InputFrom(1)
          /\ IsRenderStep => tick = "frame" /\ tick' \in {"frame", "display"}
          /\ IsOutputStep =>
                /\ tick = "display" /\ tick' = "events"
                /\ lastCall \in {"renderFrame", "Sleep"}
                /\ currentSample >= 2
          /\ tick' # tick =>
                \/ tick = "events" /\ tick' \in InputFrom(1) \cup {"frame"}
                \/ /\ tick \in InputFrom(1)
                   /\ tick' \in InputFrom(FlagNumber(tick) + 1) \cup {"frame"}
                \/ tick = "frame" /\ tick' = "display"
                \/ tick = "display" /\ tick' = "events"]_vars

\* a tick has ended whose input refocused the camera, and so reset the
\* accumulation, after the debug mode had been toggled by an event: its readout
\* is the mean of the one sample the tick took
C12_Witness ==
    /\ tick = "events"
    /\ lastCall = "getOutput"
    /\ "focusCam" \in keys
    /\ cam.focusDistance = 2
    /\ BVH_DEBUG
    /\ currentSample = 2
    /\ importance = Fin(1, 1, 1)
    /\ \A p \in Pixels : buffer[p] = 255

====
